---- MODULE Spec2Model ----
(***************************************************************************)
(* Model of the useWebSocketMCP hook (website/src/repl/useWebSocketMCP.jsx *)
(* and its older copy), the client side of the Strudel MCP protocol:       *)
(* session identity, the WebSocket lifecycle with its fixed-delay          *)
(* reconnect, the onmessage dispatch and the current-code correlator.      *)
(*                                                                         *)
(* Every callback of the hook runs as one turn of the page's event loop,   *)
(* so each callback is one action.  The browser's WebSocket object, the    *)
(* timer queue and the editor behind editorRef are the environment.        *)
(***************************************************************************)
EXTENDS Integers, Sequences, FiniteSets, TLC

VARIABLES
    impl,              \* which copy of the hook is mounted
    location,          \* window.location of the host page
    phase,             \* position of the hook in its React lifecycle
    sessionId,         \* useState('')
    connectionStatus,  \* useState('disconnected')
    wsRef,             \* wsRef.current: a socket or null
    sockets,           \* the WebSocket objects created by the hook
    failing,           \* socket whose failure task ran onerror, onclose still to run
    timers,            \* pending setTimeout(connectWebSocket, 3000) timers
    editorRef,         \* editorRef.current: the editor or null
    rx,                \* what the last run of onmessage (or of a strudelMCP method) did
    strudelMCP,        \* window.strudelMCP: the published control object
    inbox,             \* message events queued by the transport, oldest first
    trace              \* adapter calls and replies of the queued messages, in order

vars == <<impl, location, phase, sessionId, connectionStatus, wsRef, sockets,
          failing, timers, editorRef, rx, strudelMCP, inbox, trace>>

----------------------------------------------------------------------------
(* Bounds of the model *)

MaxSockets == 3        \* WebSocket objects alive or referenced at one time
MaxTimers == 2         \* reconnect timers pending at one time
TickMs == 1000         \* granularity of the passage of time
MaxMessages == 3       \* message events delivered on one connection

(* Program constants *)

ReconnectDelay == 3000

Null == 0                \* a null reference to a socket
Undefined == "undefined"

Impls == {"website", "part_001"}

SocketIds == 1..MaxSockets

SessionIds == {"abc1", "xyz7"}
Codes == {"", "s1", "s2"}
RequestIds == {"r1", "r2"}

NotReadyCode == "// Error: Editor not ready"
RetrievalErrorCode == "// Error: Could not retrieve code"
NoCodePlaceholder == "// No code in editor"

----------------------------------------------------------------------------
(* window.location: the host is a sequence of tokens so that              *)
(* host.includes(...) is a search, not an equality.                       *)

Locations ==
    { [protocol |-> "http:",  port |-> "8080", host |-> <<"localhost", ":", "8080">>],
      [protocol |-> "https:", port |-> "8000", host |-> <<"localhost", ":", "8000">>],
      [protocol |-> "https:", port |-> "",     host |-> <<"mcp", "8080", ".example.org">>],
      [protocol |-> "http:",  port |-> "4321", host |-> <<"localhost", ":", "4321">>] }

includes(host, part) == \E i \in 1..Len(host) : host[i] = part

isMCPServer ==
    IF impl = "website"
    THEN \/ location.port = "8080" \/ location.port = "8000"
         \/ includes(location.host, "8080") \/ includes(location.host, "8000")
    ELSE location.port = "8080" \/ includes(location.host, "8080")

(* wsUrl built from the session id of the first render *)
wsUrlInitialId ==
    [protocol |-> IF location.protocol = "https:" THEN "wss:" ELSE "ws:",
     host |-> location.host,
     path |-> "/strudel/ws",
     session_id |-> ""]

wsUrl ==
    [protocol |-> IF location.protocol = "https:" THEN "wss:" ELSE "ws:",
     host |-> location.host,
     path |-> "/strudel/ws",
     session_id |-> sessionId]

----------------------------------------------------------------------------
(* WebSocket objects *)

NoUrl == [protocol |-> "", host |-> <<>>, path |-> "", session_id |-> ""]

FreeSocket == [readyState |-> "FREE", url |-> NoUrl, mustFail |-> FALSE]

NewSocket(url) == [readyState |-> "CONNECTING", url |-> url, mustFail |-> FALSE]

Live(s) == sockets[s].readyState \in {"CONNECTING", "OPEN"}

(* A closed socket whose close event was delivered and that nothing       *)
(* references any more is garbage.                                         *)
Collect(socks, ref, fail) ==
    [s \in SocketIds |->
        IF socks[s].readyState = "CLOSED" /\ s # ref /\ s # fail
        THEN FreeSocket ELSE socks[s]]

FreshId == CHOOSE s \in SocketIds :
              /\ sockets[s].readyState = "FREE"
              /\ \A t \in SocketIds : sockets[t].readyState = "FREE" => s <= t

(* window.strudelMCP *)
NoBridge == [published |-> FALSE, sessionId |-> "", connectionStatus |-> "disconnected"]

(* The gate of the effect that publishes window.strudelMCP *)
isBridgeHost == location.port = "8080" \/ includes(location.host, "8080")

(* The body of that effect, run after a render with the given state *)
publish(id, status) ==
    IF isBridgeHost /\ editorRef.attached
    THEN [published |-> TRUE, sessionId |-> id, connectionStatus |-> status]
    ELSE strudelMCP

setConnectionStatus(status) ==
    \* a state update of an unmounted component is dropped by React, an
    \* update to the same value causes no render; otherwise the component
    \* renders again and the [sessionId, connectionStatus, editorRef.current]
    \* effect publishes
    /\ connectionStatus' = IF phase = "unmounted" THEN connectionStatus ELSE status
    /\ strudelMCP' = IF phase = "unmounted" \/ status = connectionStatus
                     THEN strudelMCP
                     ELSE publish(sessionId, status)

----------------------------------------------------------------------------
(* The editor behind editorRef.current *)

NoEditor == [attached |-> FALSE, code |-> ""]

AdapterOps == {"setCode", "evaluate", "stop", "code"}

(* The adapter operations the handler of a message type reaches *)
Reaches(type) ==
    CASE type = "strudel-code" -> {"setCode", "evaluate"}
      [] type \in {"strudel-stop", "stop"} -> {"stop"}
      [] type = "get-current-code" -> {"code"}
      [] OTHER -> {}

----------------------------------------------------------------------------
(* Inbound frames: the text of a frame and what JSON.parse makes of it *)

Frame(json, type, code, description, request_id) ==
    [json |-> json, type |-> type, code |-> code,
     description |-> description, request_id |-> request_id]

NoFrame == Frame("none", Undefined, Undefined, Undefined, Undefined)

RecognizedTypes == {"strudel-code", "strudel-stop", "stop", "get-current-code", "ping"}

Frames ==
    \* not JSON; the JSON text null; the JSON text of a number
    { Frame(j, Undefined, Undefined, Undefined, Undefined) : j \in {"malformed", "null", "number"} }
    \cup { Frame("object", "strudel-code", c, d, Undefined) :
              c \in Codes \ {""}, d \in {Undefined, "a beat"} }
    \cup { Frame("object", t, Undefined, Undefined, Undefined) :
              t \in {"strudel-stop", "stop", "ping", "pong", Undefined} }
    \cup { Frame("object", "get-current-code", Undefined, Undefined, r) : r \in RequestIds }

(* What one run of a handler did: the handler chosen, the adapter calls   *)
(* made, the messages handed to send, whether an exception escaped, and   *)
(* the editor afterwards.                                                  *)
Effect(handler, calls, sent, threw, editor) ==
    [handler |-> handler, calls |-> calls, sent |-> sent, threw |-> threw,
     editor |-> editor]

Call(op, arg) == [op |-> op, arg |-> arg]

Pong == [type |-> "pong"]

CurrentCodeResponse(requestId, code) ==
    [type |-> "current-code-response", request_id |-> requestId, code |-> code,
     timestamp |-> "Date.now()"]

(* ws.send(...) of the browser: throws while CONNECTING (and on a null    *)
(* reference), transmits while OPEN, discards while CLOSING or CLOSED.    *)
Send(ws, msg, eff) ==
    IF ws = Null \/ sockets[ws].readyState \in {"FREE", "CONNECTING"}
    THEN [eff EXCEPT !.threw = TRUE]
    ELSE IF sockets[ws].readyState = "OPEN"
         THEN [eff EXCEPT !.sent = Append(@, [socket |-> ws, msg |-> msg])]
         ELSE eff

IsOpen(ws) == ws # Null /\ sockets[ws].readyState = "OPEN"

(* sendCurrentCodeToServer that answers from the last strudel-code        *)
(* message it saw instead of asking the editor                            *)
sendCurrentCodeToServerFromLastMessage(requestId, throws) ==
    LET none == Effect("get-current-code", <<>>, <<>>, FALSE, editorRef)
        cached == IF rx.frame.json = "object" /\ rx.frame.type = "strudel-code"
                  THEN rx.frame.code ELSE editorRef.code
        currentCode == IF ~editorRef.attached THEN NotReadyCode
                       ELSE IF throws = "code" THEN RetrievalErrorCode
                       ELSE IF cached = "" THEN NoCodePlaceholder
                       ELSE cached
    IN  IF IsOpen(wsRef)
        THEN Send(wsRef, CurrentCodeResponse(requestId, currentCode), none)
        ELSE none

(* sendCurrentCodeToServer that keeps the response for a channel that is *)
(* not open instead of dropping it                                        *)
sendCurrentCodeToServerQueueing(requestId, throws) ==
    LET none == Effect("get-current-code", <<>>, <<>>, FALSE, editorRef)
        read == [none EXCEPT !.calls = <<Call("code", Undefined)>>]
        currentCode == IF editorRef.code = "" THEN NoCodePlaceholder ELSE editorRef.code
    IN  IF ~editorRef.attached
        THEN [none EXCEPT !.sent = <<[socket |-> wsRef,
                                      msg |-> CurrentCodeResponse(requestId, NotReadyCode)]>>]
        ELSE [read EXCEPT !.sent = <<[socket |-> wsRef,
                                      msg |-> CurrentCodeResponse(requestId, currentCode)]>>]

sendCurrentCodeToServer(requestId, throws) ==
    LET none == Effect("get-current-code", <<>>, <<>>, FALSE, editorRef)
        read == [none EXCEPT !.calls = <<Call("code", Undefined)>>]
    IN  IF impl = "website"
        THEN IF ~editorRef.attached
             THEN IF IsOpen(wsRef)
                  THEN Send(wsRef, CurrentCodeResponse(requestId, NotReadyCode), none)
                  ELSE none
             ELSE LET currentCode ==
                          IF throws = "code" THEN RetrievalErrorCode
                          ELSE IF editorRef.code = "" THEN NoCodePlaceholder
                          ELSE editorRef.code
                  IN  IF IsOpen(wsRef)
                      THEN Send(wsRef, CurrentCodeResponse(requestId, currentCode), read)
                      ELSE read
        ELSE IF ~editorRef.attached
             THEN none
             ELSE IF throws = "code"
                  THEN [read EXCEPT !.threw = TRUE]
                  ELSE LET currentCode ==
                               IF editorRef.code = "" THEN NoCodePlaceholder
                               ELSE editorRef.code
                       IN  IF IsOpen(wsRef)
                           THEN Send(wsRef, CurrentCodeResponse(requestId, currentCode), read)
                           ELSE read

(* strudelCodeHandler with evaluate() called before setCode(code) *)
strudelCodeHandlerEvaluateFirst(data, throws) ==
    LET none == Effect("strudel-code", <<>>, <<>>, FALSE, editorRef)
        set  == Call("setCode", data.code)
        eval == Call("evaluate", Undefined)
    IN  IF ~editorRef.attached THEN none
        ELSE [none EXCEPT !.calls = <<eval, set>>,
                          !.editor = [editorRef EXCEPT !.code = data.code]]

(* strudelCodeHandler that evaluates even when setCode failed *)
strudelCodeHandlerEvaluatesAnyway(data, throws) ==
    LET none == Effect("strudel-code", <<>>, <<>>, FALSE, editorRef)
        set  == Call("setCode", data.code)
        eval == Call("evaluate", Undefined)
    IN  IF ~editorRef.attached THEN none
        ELSE IF throws = "setCode"
             THEN [none EXCEPT !.calls = <<set, eval>>, !.threw = TRUE]
        ELSE IF throws = "evaluate"
             THEN [none EXCEPT !.calls = <<set, eval>>, !.threw = TRUE,
                               !.editor = [editorRef EXCEPT !.code = data.code]]
        ELSE [none EXCEPT !.calls = <<set, eval>>,
                          !.editor = [editorRef EXCEPT !.code = data.code]]

(* strudelCodeHandler that acknowledges the code it applied *)
strudelCodeHandlerAcknowledging(data, throws) ==
    LET none == Effect("strudel-code", <<>>, <<>>, FALSE, editorRef)
        set  == Call("setCode", data.code)
        eval == Call("evaluate", Undefined)
    IN  IF ~editorRef.attached THEN none
        ELSE Send(wsRef, [type |-> "strudel-code-applied"],
                  [none EXCEPT !.calls = <<set, eval>>,
                               !.editor = [editorRef EXCEPT !.code = data.code]])

strudelCodeHandler(data, throws) ==
    LET none == Effect("strudel-code", <<>>, <<>>, FALSE, editorRef)
        set  == Call("setCode", data.code)
        eval == Call("evaluate", Undefined)
    IN  IF ~editorRef.attached THEN none
        ELSE IF throws = "setCode"
             THEN [none EXCEPT !.calls = <<set>>, !.threw = TRUE]
        ELSE IF throws = "evaluate"
             THEN [none EXCEPT !.calls = <<set, eval>>, !.threw = TRUE,
                               !.editor = [editorRef EXCEPT !.code = data.code]]
        ELSE [none EXCEPT !.calls = <<set, eval>>,
                          !.editor = [editorRef EXCEPT !.code = data.code]]

stopHandler(throws) ==
    LET none == Effect("stop", <<>>, <<>>, FALSE, editorRef)
        stop == Call("stop", Undefined)
    IN  IF ~editorRef.attached THEN none
        ELSE IF throws = "stop"
             THEN [none EXCEPT !.calls = <<stop>>, !.threw = TRUE]
        ELSE [none EXCEPT !.calls = <<stop>>]

(* pingHandler answering with the ping itself *)
pingHandlerEchoesPing ==
    Send(wsRef, [type |-> "ping"], Effect("ping", <<>>, <<>>, FALSE, editorRef))

pingHandler ==
    Send(wsRef, Pong, Effect("ping", <<>>, <<>>, FALSE, editorRef))

(* onmessage without the stop synonym: only strudel-stop stops *)
onmessageStrudelStopOnly(frame, throws) ==
    LET none == Effect("none", <<>>, <<>>, FALSE, editorRef)
    IN  IF frame.json = "malformed" THEN [none EXCEPT !.threw = TRUE]
        ELSE IF frame.json = "null" THEN [none EXCEPT !.threw = TRUE]
        ELSE LET type == IF frame.json = "object" THEN frame.type ELSE Undefined
             IN  IF type = "strudel-code" THEN strudelCodeHandler(frame, throws)
                 ELSE IF type = "strudel-stop" THEN stopHandler(throws)
                 ELSE IF type = "get-current-code"
                      THEN sendCurrentCodeToServer(frame.request_id, throws)
                 ELSE IF type = "ping" THEN pingHandler
                 ELSE none

(* The body of onmessage: JSON.parse, then the if-chain on data.type.     *)
(* throws names the adapter operation that raises during this turn.       *)
onmessage(frame, throws) ==
    LET none == Effect("none", <<>>, <<>>, FALSE, editorRef)
    IN  IF frame.json = "malformed" THEN [none EXCEPT !.threw = TRUE]  \* JSON.parse throws
        ELSE IF frame.json = "null" THEN [none EXCEPT !.threw = TRUE]  \* null.type throws
        ELSE LET type == IF frame.json = "object" THEN frame.type ELSE Undefined
             IN  IF type = "strudel-code" THEN strudelCodeHandler(frame, throws)
                 ELSE IF type = "strudel-stop" \/ type = "stop" THEN stopHandler(throws)
                 ELSE IF type = "get-current-code"
                      THEN sendCurrentCodeToServer(frame.request_id, throws)
                 ELSE IF type = "ping" THEN pingHandler
                 ELSE none

(* The methods of window.strudelMCP: each dereferences editorRef.current *)
(* when it is called, so a call with no editor raises a TypeError.        *)
BridgeMethods ==
    {"strudelMCP.setCode", "strudelMCP.play", "strudelMCP.stop", "strudelMCP.getCode"}

strudelMCPMethod(method, code) ==
    LET none == Effect(method, <<>>, <<>>, FALSE, editorRef)
    IN  IF ~editorRef.attached THEN [none EXCEPT !.threw = TRUE]
        ELSE CASE method = "strudelMCP.setCode" ->
                    [none EXCEPT !.calls = <<Call("setCode", code),
                                             Call("evaluate", Undefined)>>,
                                 !.editor = [editorRef EXCEPT !.code = code]]
               [] method = "strudelMCP.play" ->
                    [none EXCEPT !.calls = <<Call("evaluate", Undefined)>>]
               [] method = "strudelMCP.stop" ->
                    [none EXCEPT !.calls = <<Call("stop", Undefined)>>]
               [] method = "strudelMCP.getCode" ->
                    [none EXCEPT !.calls = <<Call("code", Undefined)>>]

NoRx == [socket |-> Null, frame |-> NoFrame, handler |-> "none", calls |-> <<>>,
         sent |-> <<>>, caught |-> FALSE, raised |-> FALSE]

----------------------------------------------------------------------------
Init ==
    /\ impl \in Impls
    /\ location \in Locations
    /\ phase = "created"
    /\ sessionId = ""
    /\ connectionStatus = "disconnected"
    /\ wsRef = Null
    /\ sockets = [s \in SocketIds |-> FreeSocket]
    /\ failing = Null
    /\ timers = <<>>
    /\ editorRef = NoEditor
    /\ rx = NoRx
    /\ strudelMCP = NoBridge
    /\ inbox = <<>>
    /\ trace = <<>>

(* The shape of the hook's state *)
TypeOK ==
    /\ impl \in Impls
    /\ location \in Locations
    /\ phase \in {"created", "idSet", "mounted", "unmounted"}
    /\ sessionId \in SessionIds \cup {""}
    /\ connectionStatus \in {"disconnected", "connected", "error"}
    /\ wsRef \in SocketIds \cup {Null}
    /\ \A s \in SocketIds :
          sockets[s].readyState \in {"FREE", "CONNECTING", "OPEN", "CLOSING", "CLOSED"}
    /\ failing \in SocketIds \cup {Null}
    /\ Len(timers) <= MaxTimers
    /\ editorRef.attached \in BOOLEAN
    /\ editorRef.code \in Codes
    /\ rx.frame \in Frames \cup {NoFrame}
    /\ strudelMCP.published \in BOOLEAN
    /\ strudelMCP.sessionId \in SessionIds \cup {""}
    /\ strudelMCP.connectionStatus \in {"disconnected", "connected", "error"}

(* connectWebSocket without the activation gate *)
connectWebSocketUngated ==
    /\ \E s \in SocketIds : sockets[s].readyState = "FREE"
    /\ wsRef' = FreshId
    /\ sockets' = Collect([sockets EXCEPT ![FreshId] = NewSocket(wsUrl)],
                          FreshId, failing)

(* connectWebSocket: the activation gate, then a new WebSocket stored in  *)
(* wsRef.current with the four callbacks attached.                         *)
connectWebSocket ==
    IF ~isMCPServer
    THEN UNCHANGED <<wsRef, sockets>>
    ELSE /\ \E s \in SocketIds : sockets[s].readyState = "FREE"
         /\ wsRef' = FreshId
         /\ sockets' = Collect([sockets EXCEPT ![FreshId] = NewSocket(wsUrl)],
                               FreshId, failing)

(* useEffect(..., []): the session id is generated; the first run of the  *)
(* [sessionId] effect sees '' and does not connect; the first run of the  *)
(* publishing effect sees '' too.                                          *)
MountEffects ==
    /\ phase = "created"
    /\ \E id \in SessionIds : sessionId' = id
    /\ phase' = "idSet"
    /\ strudelMCP' = publish(sessionId, connectionStatus)
    /\ UNCHANGED <<impl, location, connectionStatus, wsRef, sockets, failing,
                   timers, editorRef, rx, inbox, trace>>

(* useEffect(..., [sessionId]) after the re-render with the id: the       *)
(* cleanup of the first run finds wsRef.current null, then the effect     *)
(* connects.                                                               *)
SessionEffect ==
    /\ phase = "idSet"
    /\ failing = Null
    /\ IF sessionId # "" THEN connectWebSocket ELSE UNCHANGED <<wsRef, sockets>>
    /\ phase' = "mounted"
    /\ strudelMCP' = publish(sessionId, connectionStatus)
    /\ UNCHANGED <<impl, location, sessionId, connectionStatus, failing, timers,
                   editorRef, rx, inbox, trace>>

(* ws.close() of the browser *)
close(ws) ==
    CASE sockets[ws].readyState = "CONNECTING" ->
            [sockets EXCEPT ![ws].readyState = "CLOSING", ![ws].mustFail = TRUE]
      [] sockets[ws].readyState = "OPEN" ->
            [sockets EXCEPT ![ws].readyState = "CLOSING"]
      [] OTHER -> sockets

(* The cleanup of the [sessionId] effect at unmount *)
Teardown ==
    /\ phase \in {"idSet", "mounted"}
    /\ failing = Null
    /\ phase' = "unmounted"
    /\ sockets' = IF wsRef # Null THEN close(wsRef) ELSE sockets
    /\ UNCHANGED <<impl, location, sessionId, connectionStatus, wsRef, failing,
                   timers, editorRef, rx,
                   strudelMCP, inbox, trace>>

onopen == setConnectionStatus("connected")

(* onerror that schedules a reconnect of its own *)
onerrorReconnects ==
    /\ setConnectionStatus("error")
    /\ Len(timers) < MaxTimers
    /\ timers' = Append(timers, [delay |-> ReconnectDelay, elapsed |-> 0])

onerror ==
    /\ setConnectionStatus("error")
    /\ UNCHANGED timers

(* onclose with a reconnect delay of one tick *)
oncloseShortDelay ==
    /\ setConnectionStatus("disconnected")
    /\ Len(timers) < MaxTimers
    /\ timers' = Append(timers, [delay |-> TickMs, elapsed |-> 0])

(* onclose that leaves the status as it is *)
oncloseKeepsStatus ==
    /\ UNCHANGED <<connectionStatus, strudelMCP>>
    /\ Len(timers) < MaxTimers
    /\ timers' = Append(timers, [delay |-> ReconnectDelay, elapsed |-> 0])

onclose ==
    /\ setConnectionStatus("disconnected")
    /\ Len(timers) < MaxTimers
    /\ timers' = Append(timers, [delay |-> ReconnectDelay, elapsed |-> 0])

(* The connection is established: readyState OPEN, open event *)
SocketOpen(s) ==
    /\ failing = Null
    /\ sockets[s].readyState = "CONNECTING"
    /\ sockets' = [sockets EXCEPT ![s].readyState = "OPEN"]
    /\ onopen
    /\ UNCHANGED <<impl, location, phase, sessionId, wsRef, failing, timers,
                   editorRef, rx, inbox, trace>>

(* The connection fails: readyState CLOSED, then the error event. The     *)
(* close event follows in the same task (SocketCloseAfterError).          *)
SocketError(s) ==
    /\ failing = Null
    /\ \/ sockets[s].readyState \in {"CONNECTING", "OPEN"}
       \/ sockets[s].readyState = "CLOSING"
    /\ sockets' = [sockets EXCEPT ![s].readyState = "CLOSED"]
    /\ failing' = s
    /\ onerror
    /\ UNCHANGED <<impl, location, phase, sessionId, wsRef, editorRef, rx, inbox, trace>>

SocketCloseAfterError(s) ==
    /\ failing = s
    /\ failing' = Null
    /\ sockets' = Collect(sockets, wsRef, Null)
    /\ onclose
    /\ rx' = NoRx        \* rx describes a run on a channel that is still there
    /\ UNCHANGED <<impl, location, phase, sessionId, wsRef, editorRef, inbox, trace>>

(* The peer starts the closing handshake: the browser sets readyState to  *)
(* CLOSING in a task of its own and fires no event; the close event       *)
(* follows when the handshake completes.                                   *)
SocketClosing(s) ==
    /\ failing = Null
    /\ sockets[s].readyState = "OPEN"
    /\ sockets' = [sockets EXCEPT ![s].readyState = "CLOSING"]
    /\ UNCHANGED <<impl, location, phase, sessionId, connectionStatus, wsRef,
                   failing, timers, editorRef, rx, strudelMCP, inbox, trace>>

(* The connection closes cleanly (the peer closes, or the closing         *)
(* handshake started by close() completes): readyState CLOSED, close event*)
SocketClose(s) ==
    /\ failing = Null
    /\ sockets[s].readyState \in {"OPEN", "CLOSING"}
    /\ ~sockets[s].mustFail
    /\ sockets' = Collect([sockets EXCEPT ![s].readyState = "CLOSED"], wsRef, Null)
    /\ onclose
    /\ rx' = NoRx        \* rx describes a run on a channel that is still there
    /\ UNCHANGED <<impl, location, phase, sessionId, wsRef, failing, editorRef,
                   inbox, trace>>

(* Receive whose catch block closes the channel *)
ReceiveClosingOnError(s, frame, throws) ==
    /\ failing = Null
    /\ sockets[s].readyState = "OPEN"
    /\ LET eff == onmessage(frame, throws)
       IN  /\ rx' = [socket |-> s, frame |-> frame, handler |-> eff.handler,
                     calls |-> eff.calls, sent |-> eff.sent, caught |-> eff.threw,
                     raised |-> FALSE]
           /\ editorRef' = eff.editor
           /\ sockets' = IF eff.threw THEN close(s) ELSE sockets
    /\ UNCHANGED <<impl, location, phase, sessionId, connectionStatus, wsRef,
                   failing, timers,
                   strudelMCP, inbox, trace>>

(* A frame arrives on an open socket: one run of onmessage *)
Receive(s, frame, throws) ==
    /\ failing = Null
    /\ sockets[s].readyState = "OPEN"
    /\ LET eff == onmessage(frame, throws)
       IN  /\ rx' = [socket |-> s, frame |-> frame, handler |-> eff.handler,
                     calls |-> eff.calls, sent |-> eff.sent, caught |-> eff.threw,
                     raised |-> FALSE]
           /\ editorRef' = eff.editor
    /\ UNCHANGED <<impl, location, phase, sessionId, connectionStatus, wsRef,
                   sockets, failing, timers,
                   strudelMCP, inbox, trace>>

(* Time passes *)
Tick ==
    /\ failing = Null
    /\ \E i \in 1..Len(timers) : timers[i].elapsed < timers[i].delay
    /\ timers' = [i \in 1..Len(timers) |->
                     [timers[i] EXCEPT !.elapsed =
                         IF @ + TickMs >= timers[i].delay THEN timers[i].delay
                         ELSE @ + TickMs]]
    /\ UNCHANGED <<impl, location, phase, sessionId, connectionStatus, wsRef,
                   sockets, failing, editorRef, rx,
                   strudelMCP, inbox, trace>>

Remove(seq, i) == [j \in 1..(Len(seq) - 1) |-> IF j < i THEN seq[j] ELSE seq[j + 1]]

(* TimerFire of a timer armed with setInterval: it stays armed *)
TimerFireRepeating(i) ==
    /\ failing = Null
    /\ i \in 1..Len(timers)
    /\ timers[i].elapsed >= timers[i].delay
    /\ timers' = [timers EXCEPT ![i].elapsed = 0]
    /\ connectWebSocket
    /\ UNCHANGED <<impl, location, phase, sessionId, connectionStatus, failing,
                   editorRef, rx,
                   strudelMCP, inbox, trace>>

(* A reconnect timer expires: setTimeout calls connectWebSocket *)
TimerFire(i) ==
    /\ failing = Null
    /\ i \in 1..Len(timers)
    /\ timers[i].elapsed >= timers[i].delay
    /\ timers' = Remove(timers, i)
    /\ connectWebSocket
    /\ UNCHANGED <<impl, location, phase, sessionId, connectionStatus, failing,
                   editorRef, rx,
                   strudelMCP, inbox, trace>>

(* The REPL attaches, detaches and edits the editor behind editorRef *)
AttachEditor(code) ==
    /\ failing = Null
    /\ ~editorRef.attached
    /\ editorRef' = [attached |-> TRUE, code |-> code]
    /\ UNCHANGED <<impl, location, phase, sessionId, connectionStatus, wsRef,
                   sockets, failing, timers, rx,
                   strudelMCP, inbox, trace>>

DetachEditor ==
    /\ failing = Null
    /\ editorRef.attached
    /\ editorRef' = NoEditor
    /\ UNCHANGED <<impl, location, phase, sessionId, connectionStatus, wsRef,
                   sockets, failing, timers, rx,
                   strudelMCP, inbox, trace>>

EditCode(code) ==
    /\ failing = Null
    /\ editorRef.attached
    /\ editorRef.code # code
    /\ editorRef' = [editorRef EXCEPT !.code = code]
    /\ UNCHANGED <<impl, location, phase, sessionId, connectionStatus, wsRef,
                   sockets, failing, timers, rx,
                   strudelMCP, inbox, trace>>

(* The component renders again (its parent rendered): the effect on      *)
(* [sessionId, connectionStatus, editorRef.current] sees the editor that  *)
(* is there now.                                                           *)
Render ==
    /\ phase \in {"idSet", "mounted"}
    /\ failing = Null
    /\ strudelMCP' = publish(sessionId, connectionStatus)
    /\ UNCHANGED <<impl, location, phase, sessionId, connectionStatus, wsRef,
                   sockets, failing, timers, editorRef, rx, inbox, trace>>

(* Page script calls a method of window.strudelMCP; the object is never   *)
(* removed, so this can happen after unmount too.                          *)
BridgeCall(method, code) ==
    /\ failing = Null
    /\ strudelMCP.published
    /\ LET eff == strudelMCPMethod(method, code)
       IN  /\ rx' = [socket |-> Null, frame |-> NoFrame,
                     handler |-> eff.handler,
                     calls |-> eff.calls, sent |-> eff.sent, caught |-> FALSE,
                     raised |-> eff.threw]
           /\ editorRef' = eff.editor
    /\ UNCHANGED <<impl, location, phase, sessionId, connectionStatus, wsRef,
                   sockets, failing, timers, strudelMCP, inbox, trace>>

Next ==
    \/ MountEffects
    \/ SessionEffect
    \/ Teardown
    \/ \E s \in SocketIds : SocketOpen(s)
    \/ \E s \in SocketIds : SocketError(s)
    \/ \E s \in SocketIds : SocketCloseAfterError(s)
    \/ \E s \in SocketIds : SocketClosing(s)
    \/ \E s \in SocketIds : SocketClose(s)
    \/ \E s \in SocketIds, frame \in Frames :
          \E throws \in Reaches(frame.type) \cup {"none"} : Receive(s, frame, throws)
    \/ Tick
    \/ \E i \in 1..MaxTimers : TimerFire(i)
    \/ \E code \in Codes : AttachEditor(code)
    \/ DetachEditor
    \/ \E code \in Codes : EditCode(code)
    \/ Render
    \/ \E method \in BridgeMethods, code \in Codes \ {""} : BridgeCall(method, code)

Spec == Init /\ [][Next]_vars

(* sendCurrentCodeToServer applied in any state of the hook, not only in *)
(* the turn of a get-current-code frame                                   *)
InvokeCorrelator(requestId, throws) ==
    /\ failing = Null
    /\ LET eff == sendCurrentCodeToServer(requestId, throws)
       IN  /\ rx' = [socket |-> wsRef,
                     frame |-> Frame("object", "get-current-code", Undefined,
                                     Undefined, requestId),
                     handler |-> eff.handler, calls |-> eff.calls,
                     sent |-> eff.sent, caught |-> FALSE, raised |-> eff.threw]
           /\ editorRef' = eff.editor
    /\ UNCHANGED <<impl, location, phase, sessionId, connectionStatus, wsRef,
                   sockets, failing, timers, strudelMCP, inbox, trace>>

CorrelatorInit == Init /\ location.port = "8080"

CorrelatorNext ==
    \/ Next
    \/ \E requestId \in RequestIds, throws \in {"none", "code"} :
          InvokeCorrelator(requestId, throws)

CorrelatorSpec == CorrelatorInit /\ [][CorrelatorNext]_vars

(* Message events as tasks of the event loop.  The transport queues one  *)
(* task per frame; the event loop runs the oldest.  onmessage is declared *)
(* async but contains no await, so one run is one turn.                   *)
OrderFrames ==
    { Frame("object", "strudel-code", "s1", Undefined, Undefined),
      Frame("object", "stop", Undefined, Undefined, Undefined),
      Frame("object", "ping", Undefined, Undefined, Undefined),
      Frame("object", "get-current-code", Undefined, Undefined, "r1") }

Dispatched == Cardinality({i \in DOMAIN trace : trace[i].kind = "dispatch"})

Deliver(s, frame) ==
    /\ failing = Null
    /\ sockets[s].readyState = "OPEN"
    /\ Dispatched + Len(inbox) < MaxMessages
    /\ inbox' = Append(inbox, [n |-> Dispatched + Len(inbox) + 1, frame |-> frame])
    /\ UNCHANGED <<impl, location, phase, sessionId, connectionStatus, wsRef,
                   sockets, failing, timers, editorRef, rx, strudelMCP, trace>>

(* What a run for message n adds to the trace: the dispatch, then the     *)
(* adapter calls, then the messages sent                                  *)
Traced(n, frame, eff) ==
    <<[n |-> n, kind |-> "dispatch", item |-> frame]>>
    \o [i \in DOMAIN eff.calls |-> [n |-> n, kind |-> "call", item |-> eff.calls[i]]]
    \o [i \in DOMAIN eff.sent |-> [n |-> n, kind |-> "send", item |-> eff.sent[i].msg]]

(* Dispatch that runs the newest queued message first *)
DispatchNewestFirst(s, throws) ==
    /\ failing = Null
    /\ sockets[s].readyState = "OPEN"
    /\ inbox # <<>>
    /\ LET m == inbox[Len(inbox)]
           eff == onmessage(m.frame, throws)
       IN  /\ throws \in Reaches(m.frame.type) \cup {"none"}
           /\ rx' = [socket |-> s, frame |-> m.frame, handler |-> eff.handler,
                     calls |-> eff.calls, sent |-> eff.sent, caught |-> eff.threw,
                     raised |-> FALSE]
           /\ editorRef' = eff.editor
           /\ inbox' = SubSeq(inbox, 1, Len(inbox) - 1)
           /\ trace' = trace \o Traced(m.n, m.frame, eff)
    /\ UNCHANGED <<impl, location, phase, sessionId, connectionStatus, wsRef,
                   sockets, failing, timers, strudelMCP>>

Dispatch(s, throws) ==
    /\ failing = Null
    /\ sockets[s].readyState = "OPEN"
    /\ inbox # <<>>
    /\ LET m == Head(inbox)
           eff == onmessage(m.frame, throws)
       IN  /\ throws \in Reaches(m.frame.type) \cup {"none"}
           /\ rx' = [socket |-> s, frame |-> m.frame, handler |-> eff.handler,
                     calls |-> eff.calls, sent |-> eff.sent, caught |-> eff.threw,
                     raised |-> FALSE]
           /\ editorRef' = eff.editor
           /\ inbox' = Tail(inbox)
           /\ trace' = trace \o Traced(m.n, m.frame, eff)
    /\ UNCHANGED <<impl, location, phase, sessionId, connectionStatus, wsRef,
                   sockets, failing, timers, strudelMCP>>

OrderInit == Init /\ location.port = "8080"

OrderNext ==
    \/ MountEffects
    \/ SessionEffect
    \/ \E s \in SocketIds : SocketOpen(s)
    \/ \E code \in Codes : AttachEditor(code)
    \/ \E s \in SocketIds, frame \in OrderFrames : Deliver(s, frame)
    \/ \E s \in SocketIds, throws \in AdapterOps \cup {"none"} : Dispatch(s, throws)

OrderSpec == OrderInit /\ [][OrderNext]_vars

(* The event loop runs every task it has queued: time passes, an expired  *)
(* timer fires, and the close event of a failed connection follows its    *)
(* error event.                                                            *)
FairSpec ==
    /\ Spec
    /\ WF_vars(Tick)
    /\ WF_vars(\E i \in 1..MaxTimers : TimerFire(i))
    /\ WF_vars(\E s \in SocketIds : SocketCloseAfterError(s))

----------------------------------------------------------------------------
(* Vocabulary of the properties *)

(* This step created a channel: a socket became CONNECTING *)
ChannelCreated ==
    \E s \in SocketIds :
        sockets[s].readyState # "CONNECTING" /\ sockets'[s].readyState = "CONNECTING"

IsObject(frame, type) == frame.json = "object" /\ frame.type = type

MalformedFrame == Frame("malformed", Undefined, Undefined, Undefined, Undefined)

PingFrame == Frame("object", "ping", Undefined, Undefined, Undefined)

----------------------------------------------------------------------------
(* C1: every get-current-code received on an open channel is answered by  *)
(* exactly one current-code-response on that channel with the same        *)
(* request_id, whether the adapter is attached, absent or throws on read. *)
C1_EveryRequestAnswered ==
    (rx.socket # Null /\ IsObject(rx.frame, "get-current-code")) =>
        /\ Len(rx.sent) = 1
        /\ rx.sent[1].socket = rx.socket
        /\ rx.sent[1].msg.type = "current-code-response"
        /\ rx.sent[1].msg.request_id = rx.frame.request_id

(* C1, for the copy under website/src/repl alone: there the request is    *)
(* answered in all three adapter cases.                                   *)
C1_WebsiteCopyAnswers == (impl = "website") => C1_EveryRequestAnswered

(* C2: teardown closes the active channel, and after teardown no channel  *)
(* is created any more.                                                    *)
C2_NoChannelAfterTeardown ==
    [][ /\ (phase # "unmounted" /\ phase' = "unmounted" /\ wsRef # Null)
            => sockets'[wsRef].readyState \in {"CLOSING", "CLOSED", "FREE"}
        /\ (phase = "unmounted") => ~ChannelCreated ]_vars

(* C3: while the hook is mounted, after a close event or a transport      *)
(* error event a reconnect attempt is eventually made; the timer that     *)
(* starts it was set to the fixed 3000 ms, has run its 3000 ms, and every *)
(* close sets the same delay again.                                        *)
ReconnectDue == phase # "unmounted" /\ (failing # Null \/ Len(timers) > 0)

ReconnectAttempted == wsRef # Null /\ sockets[wsRef].readyState = "CONNECTING"

C3_ReconnectAfterFixedDelay ==
    /\ [][ /\ \A i \in 1..MaxTimers :
                TimerFire(i) => /\ timers[i].delay = ReconnectDelay
                                /\ timers[i].elapsed >= ReconnectDelay
                                /\ isMCPServer => ChannelCreated
           /\ \A i \in 1..MaxTimers :
                (i > Len(timers) /\ i <= Len(timers'))
                    => timers'[i] = [delay |-> ReconnectDelay, elapsed |-> 0] ]_vars
    /\ (ReconnectDue ~> (ReconnectAttempted \/ phase = "unmounted"))

C3_Witness ==
    /\ phase = "mounted"
    /\ connectionStatus = "disconnected"
    /\ timers = <<>>
    /\ wsRef = 2
    /\ sockets[2].readyState = "CONNECTING"
    /\ sockets[1].readyState = "FREE"

(* C4: at most one channel of the session is connecting or open *)
C4_AtMostOneLiveChannel == Cardinality({s \in SocketIds : Live(s)}) <= 1

C4_Witness ==
    /\ phase = "unmounted"
    /\ wsRef = 2
    /\ sockets[2].readyState = "OPEN"
    /\ sockets[1].readyState = "FREE"

(* C5: a ping yields exactly one pong without payload on the channel it   *)
(* arrived on, no adapter call and no status change.                       *)
C5_PingYieldsOnePong ==
    [][ \A s \in SocketIds :
          Receive(s, PingFrame, "none") =>
              /\ rx'.sent = <<[socket |-> s, msg |-> [type |-> "pong"]]>>
              /\ rx'.calls = <<>>
              /\ ~rx'.caught
              /\ UNCHANGED <<connectionStatus, editorRef, sockets, wsRef, timers>> ]_vars

C5_Witness ==
    /\ IsObject(rx.frame, "ping")
    /\ rx.socket = 2
    /\ Len(rx.sent) = 1

(* C6: dispatch is by type tag: a recognized type runs its one handler,   *)
(* strudel-stop and stop run the same one, and any other type runs none,  *)
(* calls nothing, sends nothing and leaves channel and status unchanged.  *)
HandlerOf(type) ==
    CASE type = "strudel-code" -> "strudel-code"
      [] type = "strudel-stop" -> "stop"
      [] type = "stop" -> "stop"
      [] type = "get-current-code" -> "get-current-code"
      [] type = "ping" -> "ping"
      [] OTHER -> "none"

C6_DispatchByType ==
    [][ \A s \in SocketIds :
          \A throws \in Reaches(rx'.frame.type) \cup {"none"} :
            (/\ rx'.socket = s
             /\ rx'.frame.json = "object"
             /\ Receive(s, rx'.frame, throws)) =>
              /\ rx'.handler = HandlerOf(rx'.frame.type)
              /\ \A i \in 1..Len(rx'.calls) :
                    rx'.calls[i].op \in Reaches(rx'.frame.type)
              /\ (rx'.frame.type \notin RecognizedTypes) =>
                    /\ rx'.calls = <<>> /\ rx'.sent = <<>> /\ ~rx'.caught
                    /\ UNCHANGED <<connectionStatus, editorRef, sockets, wsRef,
                                   timers, failing>> ]_vars

C6_Witness ==
    /\ IsObject(rx.frame, "pong")
    /\ rx.socket # Null
    /\ editorRef.attached

(* C7: a frame that fails to parse is dropped without effect, and         *)
(* well-formed messages are still dispatched after it.                     *)
C7_MalformedFrameDropped ==
    [][ \A s \in SocketIds :
          Receive(s, MalformedFrame, "none") =>
              /\ rx'.handler = "none" /\ rx'.calls = <<>> /\ rx'.sent = <<>>
              /\ UNCHANGED <<connectionStatus, editorRef, sockets, wsRef, timers,
                             failing, phase>>
              /\ \A frame \in Frames : (ENABLED Receive(s, frame, "none"))' ]_vars

C7_Witness ==
    /\ rx.frame = MalformedFrame
    /\ rx.caught
    /\ rx.socket # Null
    /\ sockets[rx.socket].readyState = "OPEN"

C9_InertOutsideAllowList ==
    ~isMCPServer =>
        /\ \A s \in SocketIds : sockets[s].readyState = "FREE"
        /\ wsRef = Null
        /\ timers = <<>>
        /\ connectionStatus = "disconnected"

C9_Witness ==
    /\ ~isMCPServer
    /\ phase = "mounted"
    /\ sessionId # ""

(* C10: the status is Connecting from channel creation to the open event, *)
(* Connected on open, Connected to Disconnected on close, Connected to    *)
(* Error to Disconnected on a transport error, and changes no other way.  *)
StatusTransitions ==
    { <<"disconnected", "connecting">>, <<"connecting", "connected">>,
      <<"connected", "disconnected">>, <<"connected", "error">>,
      <<"error", "disconnected">> }

C10_StatusStateMachine ==
    [][ /\ (phase # "unmounted" /\ ChannelCreated) => connectionStatus' = "connecting"
        /\ (connectionStatus' # connectionStatus)
              => <<connectionStatus, connectionStatus'>> \in StatusTransitions ]_vars

----------------------------------------------------------------------------
(* The publishing effect ran in this step: the render after the session   *)
(* id was set, or the render after a status change.                       *)
PublishingEffectRan ==
    /\ phase # "unmounted"
    /\ \/ phase = "idSet" /\ phase' = "mounted"
       \/ connectionStatus' # connectionStatus

Published(id, status) ==
    [published |-> TRUE, sessionId |-> id, connectionStatus |-> status]

(* C11: on every host for which connectWebSocket opens a channel, a run   *)
(* of the publishing effect with an editor attached leaves                *)
(* window.strudelMCP published with the current sessionId and the current *)
(* connection status.                                                      *)
C11_BridgeGateIsConnectGate ==
    [][ (PublishingEffectRan /\ isMCPServer /\ editorRef'.attached)
            => strudelMCP' = Published(sessionId', connectionStatus') ]_vars

----------------------------------------------------------------------------
(* The callers of the adapter: the handlers that reach it and the methods *)
(* of window.strudelMCP                                                    *)
AdapterCallers == {"strudel-code", "stop", "get-current-code"} \cup BridgeMethods

(* C12: a caller of the adapter that runs while editorRef.current is      *)
(* absent completes without an error, raised or caught; this includes a   *)
(* method of window.strudelMCP called after the editor it was published   *)
(* with was detached.                                                      *)
C12_AbsenceIsNonFatal ==
    [][ (~editorRef.attached /\ rx' # rx /\ rx'.handler \in AdapterCallers)
            => (~rx'.raised /\ ~rx'.caught) ]_vars

----------------------------------------------------------------------------
(* This step ran sendCurrentCodeToServer *)
CorrelatorRan == rx' # rx /\ rx'.handler = "get-current-code"

(* C13: a run of sendCurrentCodeToServer while wsRef.current is not open  *)
(* sends nothing, and a current-code-response only ever leaves in the run *)
(* for a request with its request_id, on the channel that is open in that *)
(* run: nothing is kept for a later channel.                              *)
C13_NotOpenNothingSent ==
    [][ /\ (CorrelatorRan /\ ~IsOpen(wsRef)) => rx'.sent = <<>>
        /\ rx' # rx =>
              \A i \in DOMAIN rx'.sent :
                 rx'.sent[i].msg.type = "current-code-response"
                    => /\ rx'.handler = "get-current-code"
                       /\ rx'.sent[i].msg.request_id = rx'.frame.request_id
                       /\ rx'.sent[i].socket = wsRef
                       /\ IsOpen(wsRef) ]_vars

(* the website copy, which answers whenever the channel is open, ran the  *)
(* correlator with the editor attached and sent nothing                   *)
C13_Witness ==
    /\ impl = "website"
    /\ rx.handler = "get-current-code"
    /\ rx.calls # <<>>
    /\ rx.sent = <<>>
    /\ ~IsOpen(wsRef)

----------------------------------------------------------------------------
(* C14: messages are handled in delivery order, one at a time: in the     *)
(* record of dispatches, adapter calls and replies, everything caused by  *)
(* an earlier message comes before anything caused by a later one, each   *)
(* message is dispatched once and before its own effects, and so replies  *)
(* leave in the order of their requests.                                  *)
C14_HandledInDeliveryOrder ==
    /\ \A i, k \in DOMAIN trace : i < k => trace[i].n <= trace[k].n
    /\ \A i, k \in DOMAIN trace :
          (trace[i].kind = "dispatch" /\ trace[k].n = trace[i].n) => i <= k
    /\ \A i \in DOMAIN inbox : \A k \in DOMAIN trace : trace[k].n < inbox[i].n

(* two requests were queued together and a third message arrived before  *)
(* the second reply left; both replies are out, in order                  *)
C14_Witness ==
    /\ inbox # <<>>
    /\ \E i, k \in DOMAIN trace :
          /\ i < k
          /\ trace[i].kind = "send" /\ trace[i].item.type = "pong"
          /\ trace[k].kind = "send" /\ trace[k].item.type = "current-code-response"
          /\ trace[i].n < trace[k].n
    /\ \E i \in DOMAIN trace : trace[i].kind = "call"

----------------------------------------------------------------------------
(* C15: the session id, once generated, never changes; no channel exists  *)
(* while it is empty; and every channel, first connection or reconnect,   *)
(* carries that id in its URL.                                             *)
C15_OneSessionId ==
    [][ /\ sessionId # "" => sessionId' = sessionId
        /\ \A s \in SocketIds :
              sockets'[s].readyState # "FREE"
                 => /\ sessionId' # ""
                    /\ sockets'[s].url.session_id = sessionId'
                    /\ sockets'[s].url.path = "/strudel/ws" ]_vars

(* a reconnect replaced the first channel and the new channel is open *)
C15_Witness ==
    /\ wsRef = 2
    /\ sockets[2].readyState = "OPEN"
    /\ sockets[2].url.session_id = sessionId
    /\ sessionId \in SessionIds

----------------------------------------------------------------------------
(* This step opened a channel *)
ChannelOpened ==
    \E s \in SocketIds :
        sockets[s].readyState = "CONNECTING" /\ sockets'[s].readyState = "OPEN"

(* C16: the client sends nothing unsolicited: opening a channel sends     *)
(* nothing; a run of onmessage sends at most one message, a pong for a    *)
(* ping or a current-code-response for a get-current-code with the same   *)
(* request_id, on the channel the frame came in on; strudel-code, stop    *)
(* and unrecognized messages send nothing.                                 *)
C16_NothingUnsolicited ==
    [][ /\ ChannelOpened => rx' = rx
        /\ Len(rx'.sent) <= 1
        /\ \A i \in DOMAIN rx'.sent :
              /\ rx'.sent[i].socket = rx'.socket
              /\ \/ rx'.sent[i].msg = Pong /\ IsObject(rx'.frame, "ping")
                 \/ /\ rx'.sent[i].msg.type = "current-code-response"
                    /\ IsObject(rx'.frame, "get-current-code")
                    /\ rx'.sent[i].msg.request_id = rx'.frame.request_id
        /\ (rx'.frame.json # "object" \/ rx'.frame.type \notin {"ping", "get-current-code"})
              => rx'.sent = <<>> ]_vars

(* a strudel-code message was applied on the open current channel and    *)
(* nothing went out                                                        *)
C16_Witness ==
    /\ IsObject(rx.frame, "strudel-code")
    /\ Len(rx.calls) = 2
    /\ ~rx.caught
    /\ rx.sent = <<>>
    /\ rx.socket = wsRef
    /\ connectionStatus = "connected"

----------------------------------------------------------------------------
(* The code a response must carry for the editor as it is now *)
CodeNow(editor, throws) ==
    IF ~editor.attached THEN NotReadyCode
    ELSE IF throws = "code" THEN RetrievalErrorCode
    ELSE IF editor.code = "" THEN NoCodePlaceholder
    ELSE editor.code

(* C17: the code of a current-code-response is computed from the editor   *)
(* as it is when the request is handled: the not-ready placeholder if it  *)
(* is absent, the retrieval-error placeholder if the read throws, the     *)
(* no-code placeholder if the code is empty, otherwise exactly the        *)
(* editor's code, whatever was read or set before; the website copy       *)
(* answers in each of the four cases.                                      *)
C17_CodeIsReadFresh ==
    [][ \A s \in SocketIds, throws \in {"none", "code"} :
          ( /\ inbox # <<>>
            /\ Head(inbox).frame.type = "get-current-code"
            /\ Dispatch(s, throws) )
          => /\ \A i \in DOMAIN rx'.sent :
                   rx'.sent[i].msg.code = CodeNow(editorRef, throws)
             /\ impl = "website" => Len(rx'.sent) = 1 ]_vars

(* the editor was attached with other code, a strudel-code message set    *)
(* s1, and the request handled next was answered with s1                  *)
C17_Witness ==
    \E i, k \in DOMAIN trace :
        /\ trace[i].kind = "call"
        /\ trace[i].item = Call("setCode", "s1")
        /\ trace[k].kind = "send"
        /\ trace[k].n = trace[i].n + 1
        /\ trace[k].item.type = "current-code-response"
        /\ trace[k].item.code = "s1"

----------------------------------------------------------------------------
(* This step delivered the error event of a channel *)
ErrorEventDelivered == failing = Null /\ failing' # Null

(* This step delivered the close event of a channel *)
CloseEventDelivered ==
    \/ failing # Null /\ failing' = Null
    \/ /\ failing = Null /\ failing' = Null
       /\ \E s \in SocketIds :
             /\ sockets[s].readyState \in {"OPEN", "CLOSING"}
             /\ sockets'[s].readyState \in {"CLOSED", "FREE"}

(* C18: at most one reconnect timer is pending; the error event of a      *)
(* channel schedules nothing, its close event schedules exactly one       *)
(* timer, and each reconnect attempt uses up one timer, so an error       *)
(* followed by the close of the same channel leads to one attempt.        *)
C18_OneReconnectPerClosure ==
    [][ /\ Len(timers') <= 1
        /\ ErrorEventDelivered => timers' = timers
        /\ CloseEventDelivered => (timers = <<>> /\ Len(timers') = 1)
        /\ (ChannelCreated /\ phase' = phase) => (Len(timers) = 1 /\ timers' = <<>>)
      ]_vars

(* the current channel is closed and its one reconnect timer has just     *)
(* been armed                                                              *)
C18_Witness ==
    /\ phase = "mounted"
    /\ wsRef # Null
    /\ sockets[wsRef].readyState = "CLOSED"
    /\ failing = Null
    /\ Len(timers) = 1
    /\ timers[1].elapsed = 0
    /\ connectionStatus = "disconnected"

----------------------------------------------------------------------------
(* C19, as stated: whenever the status is connected the current channel   *)
(* is open, also after teardown has called close() and after a reconnect. *)
C19_ConnectedMeansOpen ==
    connectionStatus = "connected" => IsOpen(wsRef)

(* C19, amended: while the hook is mounted, a status of connected means   *)
(* the current channel is open or is closing with its close event still   *)
(* to come; it is never connecting or closed.                              *)
C19_ConnectedMeansOpenOrClosing ==
    (phase # "unmounted" /\ connectionStatus = "connected")
        => /\ wsRef # Null
           /\ sockets[wsRef].readyState \in {"OPEN", "CLOSING"}

(* after a reconnect the channel opened, and the peer has started to      *)
(* close it                                                                *)
C19_Witness ==
    /\ phase = "mounted"
    /\ connectionStatus = "connected"
    /\ wsRef = 2
    /\ sockets[wsRef].readyState = "CLOSING"

----------------------------------------------------------------------------
(* The adapter calls a handler has made when the given operation raises *)
CallsUpTo(frame, throws) ==
    CASE throws = "setCode" -> <<Call("setCode", frame.code)>>
      [] throws = "evaluate" -> <<Call("setCode", frame.code), Call("evaluate", Undefined)>>
      [] throws = "stop" -> <<Call("stop", Undefined)>>

(* C20: when setCode, evaluate or stop raises while a message is handled, *)
(* the error is caught in that run: the handler stops at the call that    *)
(* raised (no evaluate after a failed setCode), nothing is sent, the      *)
(* channel stays open, status and timers are unchanged, and the next      *)
(* message can be dispatched.                                              *)
C20_HandlerFailureContained ==
    [][ \A s \in SocketIds, throws \in {"setCode", "evaluate", "stop"} :
          ( /\ editorRef.attached
            /\ throws \in Reaches(rx'.frame.type)
            /\ Receive(s, rx'.frame, throws) )
          => /\ rx'.caught /\ ~rx'.raised
             /\ rx'.calls = CallsUpTo(rx'.frame, throws)
             /\ rx'.sent = <<>>
             /\ sockets' = sockets
             /\ sockets'[s].readyState = "OPEN"
             /\ connectionStatus' = connectionStatus
             /\ timers' = timers
             /\ wsRef' = wsRef
             /\ (ENABLED Receive(s, PingFrame, "none"))' ]_vars

(* setCode raised on the open current channel: one call, error caught,    *)
(* channel open, status connected, no timer                               *)
C20_Witness ==
    /\ IsObject(rx.frame, "strudel-code")
    /\ rx.caught
    /\ rx.calls = <<Call("setCode", rx.frame.code)>>
    /\ rx.socket = wsRef
    /\ IsOpen(wsRef)
    /\ connectionStatus = "connected"
    /\ timers = <<>>

====
